---- MODULE Spec2Model ----
(***************************************************************************)
(* Model of app_negocio.py: a Flask inventory application over two SQLite  *)
(* tables (productos, usuarios) with cookie sessions.                      *)
(*                                                                         *)
(* Conventions of the model                                                *)
(*  - A text (Python str) is a sequence of one-character strings:          *)
(*    "ab" is <<"a", "b">>, the empty text is <<>>.                        *)
(*  - A REAL (Python float) is held exactly, as an integer number of       *)
(*    hundredths: 1.5 is 150.  Float rounding is not modelled.             *)
(*  - A conversion that may raise returns [ok, v]: ok is FALSE when the     *)
(*    Python call raises ValueError, and v is the value otherwise.         *)
(***************************************************************************)
EXTENDS Integers, Sequences, FiniteSets, TLC

VARIABLES productos,   \* table productos, rows in rowid order
          secuencia,   \* sqlite_sequence of productos: largest id ever given
          usuarios,    \* table usuarios, rows in rowid order
          session,     \* client -> session["usuario"], or SinUsuario
          resp,        \* the response to the last request
          candado,     \* requests holding SQLite's write lock (none or one)
          conn,        \* request -> its connection and cursor (concurrent sells)
          inicial      \* history: the table the concurrent sells started from

vars == <<productos, secuencia, usuarios, session, resp, candado, conn, inicial>>

----------------------------------------------------------------------------
(* Texts *)

EsDigito(ch) == ch \in {"0", "1", "2", "3", "4", "5", "6", "7", "8", "9"}

DigitVal(ch) ==
    CASE ch = "0" -> 0 [] ch = "1" -> 1 [] ch = "2" -> 2 [] ch = "3" -> 3
      [] ch = "4" -> 4 [] ch = "5" -> 5 [] ch = "6" -> 6 [] ch = "7" -> 7
      [] ch = "8" -> 8 [] ch = "9" -> 9

\* Code point of the characters the model's texts are made of.
Ord(ch) ==
    CASE ch = " " -> 32 [] ch = "+" -> 43 [] ch = "," -> 44 [] ch = "-" -> 45
      [] ch = "." -> 46 [] EsDigito(ch) -> 48 + DigitVal(ch)
      [] ch = "A" -> 65 [] ch = "B" -> 66 [] ch = "P" -> 80 [] ch = "Q" -> 81
      [] ch = "a" -> 97 [] ch = "b" -> 98 [] ch = "n" -> 110 [] ch = "p" -> 112
      [] ch = "q" -> 113 [] ch = "x" -> 120

LowerChar(ch) ==
    CASE ch = "A" -> "a" [] ch = "B" -> "b" [] ch = "P" -> "p" [] ch = "Q" -> "q"
      [] OTHER -> ch

\* str.lower() and SQLite's LOWER()
Lower(s) == [i \in 1..Len(s) |-> LowerChar(s[i])]

RECURSIVE LStrip(_)
LStrip(s) == IF s # <<>> /\ Head(s) = " " THEN LStrip(Tail(s)) ELSE s

RECURSIVE RStrip(_)
RStrip(s) ==
    IF s # <<>> /\ s[Len(s)] = " " THEN RStrip(SubSeq(s, 1, Len(s) - 1)) ELSE s

\* str.strip()
Strip(s) == RStrip(LStrip(s))

\* Python's `q in s` on texts
Contiene(q, s) ==
    \E i \in 0..(Len(s) - Len(q)) : SubSeq(s, i + 1, i + Len(q)) = q

\* a < b in the byte order SQLite's BINARY collation sorts texts by
RECURSIVE TextoMenor(_, _)
TextoMenor(a, b) ==
    IF b = <<>> THEN FALSE
    ELSE IF a = <<>> THEN TRUE
    ELSE IF Ord(Head(a)) # Ord(Head(b)) THEN Ord(Head(a)) < Ord(Head(b))
    ELSE TextoMenor(Tail(a), Tail(b))

Cuenta(s, ch) == Cardinality({i \in 1..Len(s) : s[i] = ch})

SinChar(s, ch) == LET Otro(c) == c # ch IN SelectSeq(s, Otro)

Reemplazar(s, de, a) == [i \in 1..Len(s) |-> IF s[i] = de THEN a ELSE s[i]]

----------------------------------------------------------------------------
(* Numbers *)

Cien == 100

Valor(n) == [ok |-> TRUE, v |-> n]

ValueError == [ok |-> FALSE, v |-> 0]

RECURSIVE ValorDigitos(_)
ValorDigitos(s) ==
    IF s = <<>> THEN 0
    ELSE 10 * ValorDigitos(SubSeq(s, 1, Len(s) - 1)) + DigitVal(s[Len(s)])

SoloDigitos(s) == \A i \in 1..Len(s) : EsDigito(s[i])

ConSigno(s) == s # <<>> /\ Head(s) \in {"+", "-"}

SinSigno(s) == IF ConSigno(s) THEN Tail(s) ELSE s

Signo(s) == IF s # <<>> /\ Head(s) = "-" THEN 0 - 1 ELSE 1

EnteroDe(signo, d) ==
    IF d = <<>> \/ ~SoloDigitos(d) THEN ValueError
    ELSE Valor(signo * ValorDigitos(d))

\* int(text): surrounding blanks, an optional sign, then one digit or more
ParseIntLimpio(s) == EnteroDe(Signo(s), SinSigno(s))

ParseInt(texto) == ParseIntLimpio(Strip(texto))

\* The hundredths of a digit text read as a decimal fraction (".5" is 50).
Centesimas(f) ==
    IF Len(f) = 0 THEN 0
    ELSE IF Len(f) = 1 THEN 10 * DigitVal(f[1])
    ELSE 10 * DigitVal(f[1]) + DigitVal(f[2])

\* the place of the one period of d, or past its end
LugarPunto(d) ==
    IF Cuenta(d, ".") = 1 THEN CHOOSE i \in 1..Len(d) : d[i] = "." ELSE Len(d) + 1

DecimalDe(signo, d, k) ==
    IF Cuenta(d, ".") > 1 \/ SinChar(d, ".") = <<>> \/ ~SoloDigitos(SinChar(d, "."))
    THEN ValueError
    ELSE Valor(signo * (Cien * ValorDigitos(SubSeq(d, 1, k - 1))
                        + Centesimas(SubSeq(d, k + 1, Len(d)))))

\* float(text), in hundredths: blanks, an optional sign, digits with at most
\* one period and one digit at least.  Exponents, inf and nan are not texts
\* of the model.
ParseFloatLimpio(s) == DecimalDe(Signo(s), SinSigno(s), LugarPunto(SinSigno(s)))

ParseFloat(texto) == ParseFloatLimpio(Strip(texto))

\* re.sub(r"[^0-9,\.]", "", valor)
SoloNumericos(s) ==
    LET Ok(c) == EsDigito(c) \/ c \in {",", "."} IN SelectSeq(s, Ok)

UltimoPunto(s) ==
    CHOOSE i \in 1..Len(s) : s[i] = "." /\ \A j \in (i + 1)..Len(s) : s[j] # "."

\* ''.join(partes[:-1]) + '.' + partes[-1] for partes = valor.split('.')
UnirEn(s, k) ==
    SinChar(SubSeq(s, 1, k - 1), ".") \o <<".">> \o SubSeq(s, k + 1, Len(s))

\* lines 37-39
UnirMiles(s) == IF Cuenta(s, ".") > 1 THEN UnirEn(s, UltimoPunto(s)) ELSE s

\* lines 42-43
ComaDecimal(s) ==
    IF Cuenta(s, ",") > 0 THEN Reemplazar(SinChar(s, "."), ",", ".") ELSE s

\* A float that a short decimal text denotes, kept exactly: m / 10^e, where m
\* ends in no zero unless e = 0.  A text of a few digits and the float nearest
\* to it stand for each other (repr gives the shortest text that reads back as
\* the float), so two such floats are equal exactly when these pairs are.
RECURSIVE Decimal(_, _)
Decimal(m, e) ==
    IF e > 0 /\ m % 10 = 0 THEN Decimal(m \div 10, e - 1) ELSE [m |-> m, e |-> e]

\* 0.0
Cero == [m |-> 0, e |-> 0]

\* the digits of d after its one period
TrasPunto(d) == IF Cuenta(d, ".") = 1 THEN Len(d) - LugarPunto(d) ELSE 0

\* float(text) on a text of digits, commas and periods: digits with at most
\* one period and one digit at least, anything else raises ValueError
FloatDe(d) ==
    IF Cuenta(d, ".") > 1 \/ SinChar(d, ".") = <<>> \/ ~SoloDigitos(SinChar(d, "."))
    THEN ValueError
    ELSE Valor(Decimal(ValorDigitos(SinChar(d, ".")), TrasPunto(d)))

\* lines 45-48
FloatOCero(r) == IF r.ok THEN r.v ELSE Cero

\* lines 30-43: the text that reaches float()
LimpiarPrecio(valor) == ComaDecimal(UnirMiles(SoloNumericos(Strip(valor))))

normalizar_precio(valor) ==
    IF valor = <<>> THEN Cero ELSE FloatOCero(FloatDe(LimpiarPrecio(valor)))

RECURSIVE Pot10(_)
Pot10(k) == IF k = 0 THEN 1 ELSE 10 * Pot10(k - 1)

\* a float in the hundredths the REAL columns of the model are kept in; the
\* amounts the forms and uploads of the model send have two decimals at most
Centesimos(x) ==
    IF x.e <= 2 THEN x.m * Pot10(2 - x.e) ELSE x.m \div Pot10(x.e - 2)

\* Python's `x or 0` on a number
OrCero(x) == IF x = 0 THEN 0 ELSE x

----------------------------------------------------------------------------
(* The two tables *)

Fila(id, nombre, cantidad, stock_minimo, precio_costo, proveedor, ganancia) ==
    [id |-> id, nombre |-> nombre, cantidad |-> cantidad,
     stock_minimo |-> stock_minimo, precio_costo |-> precio_costo,
     proveedor |-> proveedor, ganancia |-> ganancia]

\* a salted hash: one value per (salt, password), no collisions
generate_password_hash(clave, sal) == [sal |-> sal, clave |-> clave]

check_password_hash(hash, clave) == hash.clave = clave

Admin == <<"a", "d", "m", "i", "n">>

Admin123 == <<"a", "d", "m", "i", "n", "1", "2", "3">>

Sales == {1, 2}

\* init_db on an empty usuarios table: the default account
UsuariosIniciales ==
    {<<[usuario |-> Admin, password |-> generate_password_hash(Admin123, sal)]>>
        : sal \in Sales}

\* SELECT * FROM productos ORDER BY LOWER(nombre): every order of the rows in
\* which the lowered names do not decrease (SQL leaves the order of rows with
\* equal keys open).
obtener_productos(tabla) ==
    LET n == Len(tabla)
        Perms == {f \in [1..n -> 1..n] : \A i, j \in 1..n : i # j => f[i] # f[j]}
        Ordenada(f) ==
            \A i \in 1..n : \A j \in (i + 1)..n :
                ~TextoMenor(Lower(tabla[f[j]].nombre), Lower(tabla[f[i]].nombre))
    IN  {[i \in 1..n |-> tabla[f[i]]] : f \in {g \in Perms : Ordenada(g)}}

\* SELECT * FROM productos WHERE id=?: the rows found (none or one)
obtener_producto(tabla, id) == {i \in 1..Len(tabla) : tabla[i].id = id}

\* INSERT INTO productos: AUTOINCREMENT gives the id after the largest ever given
InsertarProducto(tabla, sec, nombre, cantidad, stock_minimo, precio_costo, proveedor, ganancia) ==
    Append(tabla, Fila(sec + 1, nombre, cantidad, stock_minimo, precio_costo,
                       proveedor, ganancia))

agregar_producto(tabla, sec, nombre, cantidad, stock_minimo, precio_costo, proveedor, ganancia) ==
    InsertarProducto(tabla, sec, nombre, cantidad, stock_minimo, precio_costo,
                     proveedor, ganancia)

actualizar_producto(tabla, id, nombre, cantidad, stock_minimo, precio_costo, proveedor, ganancia) ==
    [i \in 1..Len(tabla) |->
        IF tabla[i].id = id
        THEN Fila(id, nombre, cantidad, stock_minimo, precio_costo, proveedor,
                  ganancia)
        ELSE tabla[i]]

eliminar_producto(tabla, id) ==
    LET Otra(f) == f.id # id IN SelectSeq(tabla, Otra)

\* a variant of the UPDATE of vender without `AND cantidad >= ?`
VenderSinCondicion(tabla, nombre, cantidad) ==
    [i \in 1..Len(tabla) |->
        IF tabla[i].nombre = nombre
        THEN [tabla[i] EXCEPT !.cantidad = @ - cantidad]
        ELSE tabla[i]]

\* UPDATE productos SET cantidad = cantidad - ? WHERE nombre=? AND cantidad >= ?
VenderUpdate(tabla, nombre, cantidad) ==
    [i \in 1..Len(tabla) |->
        IF tabla[i].nombre = nombre /\ tabla[i].cantidad >= cantidad
        THEN [tabla[i] EXCEPT !.cantidad = @ - cantidad]
        ELSE tabla[i]]

\* the ids of the rows that UPDATE changes (the cursor's rowcount counts them)
VenderFilas(tabla, nombre, cantidad) ==
    {tabla[i].id : i \in {j \in 1..Len(tabla) :
        tabla[j].nombre = nombre /\ tabla[j].cantidad >= cantidad}}

----------------------------------------------------------------------------
(* Derived amounts.  A cost is in hundredths and a markup in hundredths of   *)
(* a percent, so that cost * (1 + markup / 100) is an integer number of      *)
(* millionths; every derived amount is in millionths.                        *)

Micro(centesimos) == centesimos * Cien * Cien

\* p["precio_costo"] * (1 + (p["ganancia"] or 0) / 100)
PrecioVenta(p) == p.precio_costo * (Cien * Cien + OrCero(p.ganancia))

RECURSIVE Suma(_)
Suma(s) == IF s = <<>> THEN 0 ELSE Head(s) + Suma(Tail(s))

----------------------------------------------------------------------------
(* Reorder lists *)

LineaPedido(p) ==
    [faltante |-> p.stock_minimo - p.cantidad, nombre |-> p.nombre,
     precio_costo |-> p.precio_costo]

\* a variant of the loop's turn that lists a product from a shortfall of 0
AnotarPedidoDesdeCero(pedidos, p) ==
    IF p.stock_minimo - p.cantidad >= 0
    THEN IF \E k \in 1..Len(pedidos) : pedidos[k].prov = p.proveedor
         THEN [k \in 1..Len(pedidos) |->
                 IF pedidos[k].prov = p.proveedor
                 THEN [pedidos[k] EXCEPT !.lista = Append(@, LineaPedido(p))]
                 ELSE pedidos[k]]
         ELSE Append(pedidos, [prov |-> p.proveedor, lista |-> <<LineaPedido(p)>>])
    ELSE pedidos

\* One turn of the loop of generar_pedidos.  The dict pedidos is the sequence
\* of its items, in insertion order.
AnotarPedido(pedidos, p) ==
    IF p.stock_minimo - p.cantidad > 0
    THEN IF \E k \in 1..Len(pedidos) : pedidos[k].prov = p.proveedor
         THEN [k \in 1..Len(pedidos) |->
                 IF pedidos[k].prov = p.proveedor
                 THEN [pedidos[k] EXCEPT !.lista = Append(@, LineaPedido(p))]
                 ELSE pedidos[k]]
         ELSE Append(pedidos, [prov |-> p.proveedor, lista |-> <<LineaPedido(p)>>])
    ELSE pedidos

RECURSIVE PedidosDesde(_, _)
PedidosDesde(lista, pedidos) ==
    IF lista = <<>> THEN pedidos
    ELSE PedidosDesde(Tail(lista), AnotarPedido(pedidos, Head(lista)))

\* generar_pedidos, on the list obtener_productos returned
generar_pedidos(lista) == PedidosDesde(lista, <<>>)

\* the lines of the message, before urllib.parse.quote
generar_mensaje_whatsapp(proveedor, lista_productos) ==
    <<proveedor>> \o [k \in 1..Len(lista_productos) |->
        <<lista_productos[k].faltante, lista_productos[k].nombre>>]

TotalPedido(lista) ==
    Suma([k \in 1..Len(lista) |-> lista[k].faltante * Micro(lista[k].precio_costo)])

----------------------------------------------------------------------------
(* Spreadsheets.  A file is [hay, xlsx, columnas, filas]: whether a file    *)
(* was uploaded at all, whether its name ends in ".xlsx", the set of its    *)
(* column headers (after df.columns.str.strip()), and its rows, each a      *)
(* function from the six column names to the cell stored in the workbook.   *)

ColNombre == "Nombre"

ColCosto == "Precio Costo"

ColGanancia == "% Ganancia"

ColCantidad == "Cantidad"

ColStock == "Stock Minimo"

ColProveedor == "Proveedor"

columnas_validas ==
    {ColNombre, ColCosto, ColGanancia, ColCantidad, ColStock, ColProveedor}

Vacia == [t |-> "blank", n |-> 0, s |-> <<>>]

Num(n) == [t |-> "num", n |-> n, s |-> <<>>]

Txt(s) == [t |-> "txt", n |-> 0, s |-> s]

Nan == <<"n", "a", "n">>

\* the texts of the model that pandas reads as a missing value
ValoresNA == {<<>>, Nan}

\* pd.read_excel on one cell: an empty cell and a text that names a missing
\* value are both NaN
LeerCelda(celda) ==
    IF celda.t = "txt" /\ celda.s \in ValoresNA THEN Vacia ELSE celda

\* df.to_excel on one value
EscribirTexto(s) == Txt(s)

EscribirNumero(n) == Num(n)

DigitoChar(k) == <<"0", "1", "2", "3", "4", "5", "6", "7", "8", "9">>[k + 1]

RECURSIVE DigitosDe(_)
DigitosDe(n) ==
    IF n < 10 THEN <<DigitoChar(n)>>
    ELSE Append(DigitosDe(n \div 10), DigitoChar(n % 10))

Decimales(c) ==
    IF c % 10 = 0 THEN DigitosDe(c \div 10)
    ELSE DigitosDe(c \div 10) \o DigitosDe(c % 10)

StrPositivo(a) == DigitosDe(a \div Cien) \o <<".">> \o Decimales(a % Cien)

\* str(x) of a number read from a numeric cell (hundredths n): "2.0", "1.5",
\* "0.25"; amounts that Python prints with an exponent are beyond the bounds
StrNumero(n) == IF n < 0 THEN <<"-">> \o StrPositivo(0 - n) ELSE StrPositivo(n)

\* str(x) of a cell value as pandas hands it over
StrCelda(celda) ==
    CASE celda.t = "txt" -> celda.s
      [] celda.t = "num" -> StrNumero(celda.n)
      [] celda.t = "blank" -> Nan

\* int(x): a number is cut towards zero, a text is parsed
IntCelda(celda) ==
    CASE celda.t = "txt" -> ParseInt(celda.s)
      [] celda.t = "num" ->
            Valor(IF celda.n < 0 THEN 0 - ((0 - celda.n) \div Cien)
                  ELSE celda.n \div Cien)

\* float(str(x).replace(",", "."))
FloatCelda(celda) == ParseFloat(Reemplazar(StrCelda(celda), ",", "."))

NoDado == [dado |-> FALSE, ok |-> TRUE, v |-> 0]

NoDadoTexto == [dado |-> FALSE, ok |-> TRUE, v |-> <<>>]

Dado(r) == [dado |-> TRUE, ok |-> r.ok, v |-> r.v]

\* `conv(row[col]) if col in df.columns and not pd.isna(row[col]) else None`
Presente(cols, fila, col) == col \in cols /\ LeerCelda(fila[col]).t # "blank"

CampoInt(cols, fila, col) ==
    IF Presente(cols, fila, col) THEN Dado(IntCelda(LeerCelda(fila[col])))
    ELSE NoDado

CampoFloat(cols, fila, col) ==
    IF Presente(cols, fila, col) THEN Dado(FloatCelda(LeerCelda(fila[col])))
    ELSE NoDado

CampoTexto(cols, fila, col) ==
    IF Presente(cols, fila, col)
    THEN Dado(Valor(Strip(StrCelda(LeerCelda(fila[col])))))
    ELSE NoDadoTexto

\* the values lines 375-382 take from one row
CamposFila(cols, fila) ==
    [nombre |-> Strip(StrCelda(LeerCelda(fila[ColNombre]))),
     cantidad |-> CampoInt(cols, fila, ColCantidad),
     stock_minimo |-> CampoInt(cols, fila, ColStock),
     precio_costo |-> CampoFloat(cols, fila, ColCosto),
     ganancia |-> CampoFloat(cols, fila, ColGanancia),
     proveedor |-> CampoTexto(cols, fila, ColProveedor)]

\* a conversion of the row raised: the except branch is taken
FilaFalla(campos) ==
    ~(campos.cantidad.ok /\ campos.stock_minimo.ok /\ campos.precio_costo.ok
      /\ campos.ganancia.ok)

\* a variant of the UPDATE of importar_excel that sets every field
ActualizarTodos(p, campos) ==
    [p EXCEPT !.cantidad = campos.cantidad.v,
              !.stock_minimo = campos.stock_minimo.v,
              !.precio_costo = campos.precio_costo.v,
              !.proveedor = campos.proveedor.v,
              !.ganancia = campos.ganancia.v]

\* UPDATE productos SET <the fields given> ...: the row after it
ActualizarDados(p, campos) ==
    [p EXCEPT !.cantidad = IF campos.cantidad.dado THEN campos.cantidad.v ELSE @,
              !.stock_minimo =
                  IF campos.stock_minimo.dado THEN campos.stock_minimo.v ELSE @,
              !.precio_costo =
                  IF campos.precio_costo.dado THEN campos.precio_costo.v ELSE @,
              !.proveedor = IF campos.proveedor.dado THEN campos.proveedor.v ELSE @,
              !.ganancia = IF campos.ganancia.dado THEN campos.ganancia.v ELSE @]

\* UPDATE productos SET ... WHERE nombre=?
ActualizarNombre(tabla, campos) ==
    [i \in 1..Len(tabla) |->
        IF tabla[i].nombre = campos.nombre THEN ActualizarDados(tabla[i], campos)
        ELSE tabla[i]]

\* INSERT with `x if x is not None else 0` (or "") for each field
InsertarCampos(tabla, sec, campos) ==
    InsertarProducto(tabla, sec, campos.nombre, campos.cantidad.v,
                     campos.stock_minimo.v, campos.precio_costo.v,
                     campos.proveedor.v, campos.ganancia.v)

\* SELECT id FROM productos WHERE nombre=? finds a row
Existe(tabla, nombre) == \E i \in 1..Len(tabla) : tabla[i].nombre = nombre

\* a variant of the try block that writes before the conversions are known
\* to have succeeded
ProcesarCamposEscribe(tabla, sec, campos) ==
    IF Existe(tabla, campos.nombre)
    THEN [falla |-> FilaFalla(campos), sec |-> sec,
          tabla |-> ActualizarNombre(tabla, campos)]
    ELSE [falla |-> FilaFalla(campos), sec |-> sec + 1,
          tabla |-> InsertarCampos(tabla, sec, campos)]

\* The try block of importar_excel for one row, on the uncommitted table:
\* [falla, tabla, sec]
ProcesarCampos(tabla, sec, campos) ==
    IF FilaFalla(campos) THEN [falla |-> TRUE, tabla |-> tabla, sec |-> sec]
    ELSE IF Existe(tabla, campos.nombre)
    THEN [falla |-> FALSE, sec |-> sec, tabla |-> ActualizarNombre(tabla, campos)]
    ELSE [falla |-> FALSE, sec |-> sec + 1,
          tabla |-> InsertarCampos(tabla, sec, campos)]

ProcesarFila(tabla, sec, cols, fila) ==
    ProcesarCampos(tabla, sec, CamposFila(cols, fila))

\* the except branch counts the row, the end of the try block counts it too
Contar(acc, r) ==
    [tabla |-> r.tabla, sec |-> r.sec,
     filas_ok |-> IF r.falla THEN acc.filas_ok ELSE acc.filas_ok + 1,
     filas_err |-> IF r.falla THEN acc.filas_err + 1 ELSE acc.filas_err]

PasoImportar(acc, cols, fila) ==
    Contar(acc, ProcesarFila(acc.tabla, acc.sec, cols, fila))

\* the loop of importar_excel over the rows left, on the uncommitted table acc
RECURSIVE ImportarFilas(_, _, _)
ImportarFilas(acc, cols, filas) ==
    IF filas = <<>> THEN acc
    ELSE ImportarFilas(PasoImportar(acc, cols, Head(filas)), cols, Tail(filas))

\* lines 369-371: the connection's view of the table, and the two counters
AlAbrir(tabla, sec) == [tabla |-> tabla, sec |-> sec, filas_ok |-> 0, filas_err |-> 0]

\* the workbook exportar_excel writes from the list obtener_productos returned
FilaExportada(p) ==
    [col \in columnas_validas |->
        CASE col = ColNombre -> EscribirTexto(p.nombre)
          [] col = ColCosto -> EscribirNumero(p.precio_costo)
          [] col = ColGanancia -> EscribirNumero(OrCero(p.ganancia))
          [] col = ColCantidad -> EscribirNumero(p.cantidad * Cien)
          [] col = ColStock -> EscribirNumero(p.stock_minimo * Cien)
          [] col = ColProveedor -> EscribirTexto(p.proveedor)]

ArchivoExportado(lista) ==
    [hay |-> TRUE, xlsx |-> TRUE, columnas |-> columnas_validas,
     filas |-> [k \in 1..Len(lista) |-> FilaExportada(lista[k])]]

----------------------------------------------------------------------------
(* Requests.  Each handler is one step; resp is what the client gets back:  *)
(* the route, the client, where it lands (a redirect target, a template, a  *)
(* file or an error status), the flashed message and the template's or      *)
(* file's data; args keeps the form of a login or password request, the    *)
(* query of the inventory page and the upload of an import.                *)

MaxFilas == 2

MaxId == 3

Resp(op, c, args, destino, flash, datos) ==
    [op |-> op, cliente |-> c, args |-> args, destino |-> destino,
     flash |-> flash, datos |-> datos]

\* `"usuario" not in session`
SinSesion(c) == session[c] = {}

UsuarioDe(c) == CHOOSE u \in session[c] : TRUE

\* redirect(url_for("login"))
ALogin(op, c) == Resp(op, c, <<>>, "login", <<>>, <<>>)

Quieto == UNCHANGED <<candado, conn, inicial>>

SoloResp == UNCHANGED <<productos, secuencia, usuarios, session>> /\ Quieto

\* the template arguments of lista_precios
VistaListaPrecios(lista, q) ==
    LET filas == [k \in 1..Len(lista) |->
                    [nombre |-> lista[k].nombre, cantidad |-> lista[k].cantidad,
                     precio_venta |-> PrecioVenta(lista[k])]]
        Pasa(p) == Contiene(q, Lower(p.nombre))
    IN  [lista |-> IF q # <<>> THEN SelectSeq(filas, Pasa) ELSE filas,
         query |-> q]

lista_precios(c, consulta) ==
    /\ \E lista \in obtener_productos(productos) :
          resp' = IF SinSesion(c) THEN ALogin("lista_precios", c)
                  ELSE Resp("lista_precios", c, <<>>, "lista_precios.html", <<>>,
                            VistaListaPrecios(lista, Lower(consulta)))
    /\ SoloResp

index(c, consulta) ==
    /\ \E lista \in obtener_productos(productos) :
          resp' = IF SinSesion(c) THEN ALogin("index", c)
                  ELSE Resp("index", c, <<>>, "lista_precios.html", <<>>,
                            VistaListaPrecios(lista, Lower(consulta)))
    /\ SoloResp

FilasInventario(lista) ==
    [k \in 1..Len(lista) |->
        [id |-> lista[k].id, nombre |-> lista[k].nombre,
         cantidad |-> lista[k].cantidad, stock_minimo |-> lista[k].stock_minimo,
         precio_costo |-> lista[k].precio_costo,
         ganancia |-> OrCero(lista[k].ganancia),
         precio_venta |-> PrecioVenta(lista[k]),
         proveedor |-> lista[k].proveedor]]

PasaFiltro(q, p) ==
    Contiene(q, Lower(p.nombre)) \/ Contiene(q, Lower(p.proveedor))

TotalCosto(prods) ==
    Suma([k \in 1..Len(prods) |-> prods[k].cantidad * Micro(prods[k].precio_costo)])

TotalVenta(prods) ==
    Suma([k \in 1..Len(prods) |-> prods[k].cantidad * prods[k].precio_venta])

\* a variant of the page whose totals are taken before the filter
VistaTotalesAntes(lista, q) ==
    LET todos == FilasInventario(lista)
        Pasa(p) == PasaFiltro(q, p)
    IN  [productos |-> IF q # <<>> THEN SelectSeq(todos, Pasa) ELSE todos,
         query |-> q,
         total_costo |-> TotalCosto(todos),
         total_venta |-> TotalVenta(todos),
         ganancia |-> TotalVenta(todos) - TotalCosto(todos)]

\* the template arguments of inventario
VistaInventario(lista, q) ==
    LET todos == FilasInventario(lista)
        Pasa(p) == PasaFiltro(q, p)
        prods == IF q # <<>> THEN SelectSeq(todos, Pasa) ELSE todos
    IN  [productos |-> prods,
         query |-> q,
         total_costo |-> TotalCosto(prods),
         total_venta |-> TotalVenta(prods),
         ganancia |-> TotalVenta(prods) - TotalCosto(prods)]

inventario(c, consulta) ==
    /\ \E lista \in obtener_productos(productos) :
          resp' = IF SinSesion(c) THEN ALogin("inventario", c)
                  ELSE Resp("inventario", c, [q |-> consulta], "index.html", <<>>,
                            VistaInventario(lista, Lower(consulta)))
    /\ SoloResp

\* the conversions of the form of agregar and editar all succeed
FormOk(form) ==
    /\ ParseInt(form.cantidad).ok
    /\ ParseInt(form.stock_minimo).ok
    /\ ParseFloat(Reemplazar(form.ganancia, ",", ".")).ok

FormGanancia(form) == ParseFloat(Reemplazar(form.ganancia, ",", ".")).v

agregar(c, metodo, form) ==
    LET inserta == ~SinSesion(c) /\ metodo = "POST" /\ FormOk(form)
    IN  /\ inserta => Len(productos) < MaxFilas /\ secuencia < MaxId
        /\ productos' =
              IF inserta
              THEN agregar_producto(productos, secuencia, form.nombre,
                       ParseInt(form.cantidad).v, ParseInt(form.stock_minimo).v,
                       Centesimos(normalizar_precio(form.precio_costo)),
                       form.proveedor,
                       FormGanancia(form))
              ELSE productos
        /\ secuencia' = IF inserta THEN secuencia + 1 ELSE secuencia
        /\ resp' = IF SinSesion(c) THEN ALogin("agregar", c)
                   ELSE IF metodo = "GET"
                   THEN Resp("agregar", c, <<>>, "agregar.html", <<>>, <<>>)
                   ELSE IF FormOk(form)
                   THEN Resp("agregar", c, <<>>, "index", <<>>, <<>>)
                   ELSE Resp("agregar", c, <<>>, "500", <<>>, <<>>)
        /\ UNCHANGED <<usuarios, session>> /\ Quieto

editar(c, id, metodo, form) ==
    LET hallado == obtener_producto(productos, id) # {}
        cambia == ~SinSesion(c) /\ hallado /\ metodo = "POST" /\ FormOk(form)
    IN  /\ productos' =
              IF cambia
              THEN actualizar_producto(productos, id, form.nombre,
                       ParseInt(form.cantidad).v, ParseInt(form.stock_minimo).v,
                       Centesimos(normalizar_precio(form.precio_costo)),
                       form.proveedor,
                       FormGanancia(form))
              ELSE productos
        /\ resp' = IF SinSesion(c) THEN ALogin("editar", c)
                   ELSE IF ~hallado THEN Resp("editar", c, <<>>, "404", <<>>, <<>>)
                   ELSE IF metodo = "GET"
                   THEN Resp("editar", c, <<>>, "editar.html", <<>>,
                             productos[CHOOSE i \in obtener_producto(productos, id) : TRUE])
                   ELSE IF FormOk(form)
                   THEN Resp("editar", c, <<>>, "inventario", <<>>, <<>>)
                   ELSE Resp("editar", c, <<>>, "500", <<>>, <<>>)
        /\ UNCHANGED <<secuencia, usuarios, session>> /\ Quieto

\* a variant of eliminar that deletes before it looks at the session
eliminarSinGate(c, id) ==
    /\ productos' = eliminar_producto(productos, id)
    /\ resp' = IF SinSesion(c) THEN ALogin("eliminar", c)
               ELSE Resp("eliminar", c, <<>>, "index", <<>>, <<>>)
    /\ UNCHANGED <<secuencia, usuarios, session>> /\ Quieto

eliminar(c, id) ==
    /\ productos' = IF SinSesion(c) THEN productos
                    ELSE eliminar_producto(productos, id)
    /\ resp' = IF SinSesion(c) THEN ALogin("eliminar", c)
               ELSE Resp("eliminar", c, <<>>, "index", <<>>, <<>>)
    /\ UNCHANGED <<secuencia, usuarios, session>> /\ Quieto

\* the template arguments of pedidos
VistaPedidos(dict) ==
    [pedidos |-> dict,
     enlaces |-> [k \in 1..Len(dict) |->
                    generar_mensaje_whatsapp(dict[k].prov, dict[k].lista)],
     totales |-> [k \in 1..Len(dict) |-> TotalPedido(dict[k].lista)],
     total_general |-> Suma([k \in 1..Len(dict) |-> TotalPedido(dict[k].lista)])]

pedidos(c) ==
    /\ \E lista \in obtener_productos(productos) :
          resp' = IF SinSesion(c) THEN ALogin("pedidos", c)
                  ELSE Resp("pedidos", c, <<>>, "pedidos.html", <<>>,
                            VistaPedidos(generar_pedidos(lista)))
    /\ SoloResp

\* <int:cantidad> matches digits only: cantidad is a natural number
vender(c, nombre, cantidad) ==
    /\ productos' = IF SinSesion(c) THEN productos
                    ELSE VenderUpdate(productos, nombre, cantidad)
    /\ resp' = IF SinSesion(c) THEN ALogin("vender", c)
               ELSE Resp("vender", c, <<>>, "lista_precios",
                         <<"vendido", cantidad, nombre>>, <<>>)
    /\ UNCHANGED <<secuencia, usuarios, session>> /\ Quieto

FilaPrecios(p) ==
    [nombre |-> p.nombre, precio_costo |-> p.precio_costo,
     ganancia |-> OrCero(p.ganancia), precio_venta |-> PrecioVenta(p),
     proveedor |-> p.proveedor]

exportar_precios(c) ==
    /\ \E lista \in obtener_productos(productos) :
          resp' = IF SinSesion(c) THEN ALogin("exportar_precios", c)
                  ELSE Resp("exportar_precios", c, <<>>, "lista_precios.xlsx", <<>>,
                            [k \in 1..Len(lista) |-> FilaPrecios(lista[k])])
    /\ SoloResp

\* the copy of the database file
backup(c) ==
    /\ resp' = IF SinSesion(c) THEN ALogin("backup", c)
               ELSE Resp("backup", c, <<>>, "backup.db", <<>>,
                         [productos |-> productos, secuencia |-> secuencia,
                          usuarios |-> usuarios])
    /\ SoloResp

exportar_excel(c) ==
    /\ \E lista \in obtener_productos(productos) :
          resp' = IF SinSesion(c) THEN ALogin("exportar", c)
                  ELSE Resp("exportar", c, <<>>, "productos_export.xlsx", <<>>,
                            ArchivoExportado(lista))
    /\ SoloResp

\* how far importar_excel gets with the upload
ArchivoValido(archivo) == archivo.hay /\ archivo.xlsx

ConNombre(archivo) == ColNombre \in archivo.columnas

Importado(tabla, sec, archivo) ==
    ImportarFilas(AlAbrir(tabla, sec), archivo.columnas, archivo.filas)

\* conn.commit(), the flash and the redirect, for the loop's result r
ImportarFin(c, args, r) ==
    /\ Len(r.tabla) <= MaxFilas
    /\ r.sec <= MaxId
    /\ productos' = r.tabla
    /\ secuencia' = r.sec
    /\ resp' = Resp("importar", c, args, "index",
                    <<"importacion", r.filas_ok, r.filas_err>>, <<>>)

ImportarArgs(metodo, archivo) == [metodo |-> metodo, archivo |-> archivo]

importar_excel(c, metodo, archivo) ==
    /\ IF ~SinSesion(c) /\ metodo = "POST" /\ ArchivoValido(archivo)
          /\ ConNombre(archivo)
       THEN ImportarFin(c, ImportarArgs(metodo, archivo),
                        Importado(productos, secuencia, archivo))
       ELSE /\ UNCHANGED <<productos, secuencia>>
            /\ resp' = IF SinSesion(c) THEN ALogin("importar", c)
                       ELSE IF metodo = "GET"
                       THEN Resp("importar", c, ImportarArgs(metodo, archivo),
                                 "importar.html", <<>>, <<>>)
                       ELSE IF ~ArchivoValido(archivo)
                       THEN Resp("importar", c, ImportarArgs(metodo, archivo),
                                 "importar", <<"no_xlsx">>, <<>>)
                       ELSE Resp("importar", c, ImportarArgs(metodo, archivo),
                                 "importar", <<"sin_nombre">>, <<>>)
    /\ UNCHANGED <<usuarios, session>> /\ Quieto

\* SELECT * FROM usuarios WHERE usuario=?: the rows found (none or one)
BuscarUsuario(usuario) == {i \in 1..Len(usuarios) : usuarios[i].usuario = usuario}

Acredita(usuario, password) ==
    \E i \in BuscarUsuario(usuario) :
        check_password_hash(usuarios[i].password, password)

\* a variant of login whose failure branch empties the session
loginBorraSesion(c, metodo, usuario, password) ==
    LET entra == metodo = "POST" /\ Acredita(usuario, password)
        args == [metodo |-> metodo, usuario |-> usuario, password |-> password]
    IN  /\ session' = [session EXCEPT ![c] = IF entra THEN {usuario} ELSE {}]
        /\ resp' = IF metodo = "GET"
                   THEN Resp("login", c, args, "login.html", <<>>, <<>>)
                   ELSE IF entra
                   THEN Resp("login", c, args, "lista_precios", <<"bienvenido", usuario>>,
                             <<>>)
                   ELSE Resp("login", c, args, "login.html", <<"incorrectos">>, <<>>)
        /\ UNCHANGED <<productos, secuencia, usuarios>> /\ Quieto

login(c, metodo, usuario, password) ==
    LET entra == metodo = "POST" /\ Acredita(usuario, password)
        args == [metodo |-> metodo, usuario |-> usuario, password |-> password]
    IN  /\ session' = IF entra THEN [session EXCEPT ![c] = {usuario}] ELSE session
        /\ resp' = IF metodo = "GET"
                   THEN Resp("login", c, args, "login.html", <<>>, <<>>)
                   ELSE IF entra
                   THEN Resp("login", c, args, "lista_precios", <<"bienvenido", usuario>>,
                             <<>>)
                   ELSE Resp("login", c, args, "login.html", <<"incorrectos">>, <<>>)
        /\ UNCHANGED <<productos, secuencia, usuarios>> /\ Quieto

\* session.clear()
logout(c) ==
    /\ session' = [session EXCEPT ![c] = {}]
    /\ resp' = Resp("logout", c, <<>>, "login", <<"cerrada">>, <<>>)
    /\ UNCHANGED <<productos, secuencia, usuarios>> /\ Quieto

\* UPDATE usuarios SET password=? WHERE usuario=?
CambiarHash(tabla, usuario, hash) ==
    [i \in 1..Len(tabla) |->
        IF tabla[i].usuario = usuario THEN [tabla[i] EXCEPT !.password = hash]
        ELSE tabla[i]]

\* a variant of cambiar_password that does not compare nueva and confirmar
cambiar_passwordSinConfirmar(c, metodo, actual, nueva, confirmar, sal) ==
    LET cambia == /\ ~SinSesion(c)
                  /\ metodo = "POST"
                  /\ Acredita(UsuarioDe(c), actual)
        args == [metodo |-> metodo, actual |-> actual, nueva |-> nueva,
                 confirmar |-> confirmar]
    IN  /\ usuarios' = IF cambia
                       THEN CambiarHash(usuarios, UsuarioDe(c),
                                        generate_password_hash(nueva, sal))
                       ELSE usuarios
        /\ resp' = IF SinSesion(c) THEN ALogin("cambiar_password", c)
                   ELSE IF metodo = "GET"
                   THEN Resp("cambiar_password", c, args, "cambiar_password.html", <<>>,
                             <<>>)
                   ELSE IF nueva # confirmar
                   THEN Resp("cambiar_password", c, args, "cambiar_password",
                             <<"no_coinciden">>, <<>>)
                   ELSE IF ~Acredita(UsuarioDe(c), actual)
                   THEN Resp("cambiar_password", c, args, "cambiar_password",
                             <<"actual_incorrecta">>, <<>>)
                   ELSE Resp("cambiar_password", c, args, "inventario", <<"cambiada">>,
                             <<>>)
        /\ UNCHANGED <<productos, secuencia, session>> /\ Quieto

cambiar_password(c, metodo, actual, nueva, confirmar, sal) ==
    LET cambia == /\ ~SinSesion(c)
                  /\ metodo = "POST"
                  /\ nueva = confirmar
                  /\ Acredita(UsuarioDe(c), actual)
        args == [metodo |-> metodo, actual |-> actual, nueva |-> nueva,
                 confirmar |-> confirmar]
    IN  /\ usuarios' = IF cambia
                       THEN CambiarHash(usuarios, UsuarioDe(c),
                                        generate_password_hash(nueva, sal))
                       ELSE usuarios
        /\ resp' = IF SinSesion(c) THEN ALogin("cambiar_password", c)
                   ELSE IF metodo = "GET"
                   THEN Resp("cambiar_password", c, args, "cambiar_password.html", <<>>,
                             <<>>)
                   ELSE IF nueva # confirmar
                   THEN Resp("cambiar_password", c, args, "cambiar_password",
                             <<"no_coinciden">>, <<>>)
                   ELSE IF ~Acredita(UsuarioDe(c), actual)
                   THEN Resp("cambiar_password", c, args, "cambiar_password",
                             <<"actual_incorrecta">>, <<>>)
                   ELSE Resp("cambiar_password", c, args, "inventario", <<"cambiada">>,
                             <<>>)
        /\ UNCHANGED <<productos, secuencia, session>> /\ Quieto

----------------------------------------------------------------------------
(* The application, one request at a time *)

Clientes == {"c1", "c2"}

Peticiones == {"r1", "r2", "r3"}

Ana == <<"a", "n", "a">>

Clave == <<"x">>

\* a usuarios table that init_db finds already filled and leaves alone
UsuariosPrevios ==
    {<<[usuario |-> Admin, password |-> generate_password_hash(Admin123, 1)],
       [usuario |-> Ana, password |-> generate_password_hash(Clave, 1)]>>}

\* a request's connection: where the request is, who sent it, what it sells,
\* the ids of the rows its UPDATE changed and the table of its transaction
SinConexion ==
    [pc |-> "libre", cliente |-> "c1", nombre |-> <<>>, cantidad |-> 0,
     filas |-> {}, tabla |-> <<>>]

RespInicial == Resp("ninguna", "c1", <<>>, "", <<>>, <<>>)

\* init_db on a new database file, with no productos_stock.json to migrate
Init ==
    /\ productos = <<>>
    /\ secuencia = 0
    /\ usuarios \in UsuariosIniciales
    /\ session = [c \in Clientes |-> {}]
    /\ resp = RespInicial
    /\ candado = {}
    /\ conn = [r \in Peticiones |-> SinConexion]
    /\ inicial = <<>>

Metodos == {"GET", "POST"}

Form(nombre, cantidad, stock_minimo, precio_costo, proveedor, ganancia) ==
    [nombre |-> nombre, cantidad |-> cantidad, stock_minimo |-> stock_minimo,
     precio_costo |-> precio_costo, proveedor |-> proveedor,
     ganancia |-> ganancia]

FilaArchivo(nombre, costo, ganancia, cantidad, stock, proveedor) ==
    [col \in columnas_validas |->
        CASE col = ColNombre -> nombre
          [] col = ColCosto -> costo
          [] col = ColGanancia -> ganancia
          [] col = ColCantidad -> cantidad
          [] col = ColStock -> stock
          [] col = ColProveedor -> proveedor]

Archivo(columnas, filas) ==
    [hay |-> TRUE, xlsx |-> TRUE, columnas |-> columnas, filas |-> filas]

SinArchivo == [hay |-> FALSE, xlsx |-> FALSE, columnas |-> {}, filas |-> <<>>]

\* what the clients send in Spec
Claves == {Admin123, Clave}

Consultas == {<<>>, <<"A">>}

Forms ==
    {Form(<<"a">>, <<"1">>, <<"2">>, <<"1", ",", "5">>, <<"p">>, <<"5", "0">>),
     Form(<<"a">>, <<"x">>, <<"2">>, <<"1">>, <<"p">>, <<"0">>)}

NombresVenta == {<<"a">>}

CantidadesVenta == {1}

Archivos ==
    {SinArchivo,
     Archivo({ColCantidad}, <<>>),
     Archivo(columnas_validas,
             <<FilaArchivo(Txt(<<"a">>), Vacia, Vacia, Num(Cien), Vacia, Vacia)>>)}

\* Both clients call every route; c1 is the one who tries to log in, so c2
\* calls them all without ever having a session.
Next ==
    \/ \E c \in Clientes : index(c, <<>>)
    \/ \E c \in Clientes, q \in Consultas : inventario(c, q)
    \/ \E c \in Clientes, m \in Metodos, f \in Forms : agregar(c, m, f)
    \/ \E c \in Clientes, id \in 1..MaxId, m \in Metodos, f \in Forms :
          editar(c, id, m, f)
    \/ \E c \in Clientes, id \in 1..MaxId : eliminar(c, id)
    \/ \E c \in Clientes : pedidos(c)
    \/ \E c \in Clientes : lista_precios(c, <<"A">>)
    \/ \E c \in Clientes, n \in NombresVenta, k \in CantidadesVenta :
          vender(c, n, k)
    \/ \E c \in Clientes : exportar_precios(c)
    \/ \E c \in Clientes : backup(c)
    \/ \E c \in Clientes, m \in Metodos, a \in Archivos : importar_excel(c, m, a)
    \/ \E c \in Clientes : exportar_excel(c)
    \/ \E m \in Metodos, p \in Claves : login("c1", m, Admin, p)
    \/ \E c \in Clientes : logout(c)
    \/ \E c \in Clientes, m \in Metodos, a \in Claves :
          cambiar_password(c, m, a, Clave, Clave, 1)

Spec == Init /\ [][Next]_vars

----------------------------------------------------------------------------
(* Accounts and sessions alone, on either kind of usuarios table *)

InitAuth ==
    /\ productos = <<>>
    /\ secuencia = 0
    /\ usuarios \in UsuariosIniciales \cup UsuariosPrevios
    /\ session = [c \in Clientes |-> {}]
    /\ resp = RespInicial
    /\ candado = {}
    /\ conn = [r \in Peticiones |-> SinConexion]
    /\ inicial = <<>>

NombresAuth == {Admin, Ana, Clave}

NextAuth ==
    \/ \E c \in Clientes, m \in Metodos, u \in NombresAuth, p \in Claves :
          login(c, m, u, p)
    \/ \E c \in Clientes : logout(c)
    \/ \E c \in Clientes, m \in Metodos, a \in Claves, n \in Claves,
          k \in Claves, sal \in Sales : cambiar_password(c, m, a, n, k, sal)
    \/ \E c \in Clientes : pedidos(c)

SpecAuth == InitAuth /\ [][NextAuth]_vars

----------------------------------------------------------------------------
(* Claims on the auth gate *)

Protegidas ==
    {"index", "inventario", "agregar", "editar", "eliminar", "pedidos",
     "lista_precios", "vender", "exportar_precios", "exportar", "importar",
     "backup", "cambiar_password"}

\* the table holds the account and the password is the one it was hashed from
CredencialesCorrectas(usuario, password) ==
    \E i \in 1..Len(usuarios) :
        usuarios[i].usuario = usuario /\ usuarios[i].password.clave = password

\* the step is a POST to /login with correct credentials
LoginCorrecto ==
    /\ resp'.op = "login"
    /\ resp'.args.metodo = "POST"
    /\ CredencialesCorrectas(resp'.args.usuario, resp'.args.password)

\* the step is a POST to /login with a wrong password or an unknown username
LoginFallido ==
    /\ resp'.op = "login"
    /\ resp'.args.metodo = "POST"
    /\ ~CredencialesCorrectas(resp'.args.usuario, resp'.args.password)

\* what C3 says of one step
C3_Gate ==
    /\ (resp'.op \in Protegidas /\ session[resp'.cliente] = {})
          => /\ resp'.destino = "login"
             /\ productos' = productos
             /\ secuencia' = secuencia
             /\ usuarios' = usuarios
    /\ (resp'.op \in Protegidas /\ session[resp'.cliente] # {})
          => resp'.destino # "login"
    /\ \A c \in Clientes :
          session'[c] # session[c] =>
             IF session'[c] = {}
             THEN resp'.op = "logout" /\ resp'.cliente = c
             ELSE /\ LoginCorrecto
                  /\ resp'.cliente = c
                  /\ session'[c] = {resp'.args.usuario}
    /\ LoginCorrecto => session'[resp'.cliente] = {resp'.args.usuario}
    /\ resp'.op = "logout" => session'[resp'.cliente] = {}

\* C3: a gated route requested without an authenticated session redirects to
\* login and leaves both tables as they were; with an authenticated session it
\* is not turned away; and a client's session becomes authenticated only by
\* its own login with correct credentials, always does so then, and stops
\* being authenticated only by, and always by, its own logout.
C3_AuthGate == [][C3_Gate]_vars

\* C3 witness: with another client logged in and a product stored, a client
\* without a session asked to delete and was sent to login.
C3_Witness ==
    /\ resp.op = "eliminar"
    /\ resp.destino = "login"
    /\ session[resp.cliente] = {}
    /\ Len(productos) > 0
    /\ \E c \in Clientes : session[c] # {}

\* C4 as stated: after a failed login attempt the caller's session holds no
\* authenticated user and the users table is unchanged.
C4_Original ==
    [][LoginFallido => session'[resp'.cliente] = {} /\ usuarios' = usuarios]_vars

\* C4 amended: a failed login attempt leaves every session and the users
\* table as they were, so a caller without an authenticated user still has
\* none, and a caller that was logged in stays logged in as the same user.
C4_FailedLoginKeepsSession ==
    [][LoginFallido =>
          /\ session' = session
          /\ usuarios' = usuarios
          /\ resp'.destino = "login.html"
          /\ (session[resp'.cliente] = {} => session'[resp'.cliente] = {})]_vars

\* C4 witness: a logged-in client has just failed a login attempt.
C4_Witness ==
    /\ resp.op = "login"
    /\ resp.flash = <<"incorrectos">>
    /\ session[resp.cliente] # {}

\* the step is a POST to /cambiar_password by a client with a session
CambioPedido ==
    /\ resp'.op = "cambiar_password"
    /\ session[resp'.cliente] # {}
    /\ resp'.args.metodo = "POST"

\* what C5 says of one step
C5_Cambio ==
    /\ (CambioPedido
        /\ (resp'.args.nueva # resp'.args.confirmar
            \/ ~CredencialesCorrectas(UsuarioDe(resp'.cliente), resp'.args.actual)))
          => /\ usuarios' = usuarios
             /\ resp'.destino = "cambiar_password"
    /\ usuarios' = usuarios =>
          \A u \in NombresAuth, p \in Claves :
              CredencialesCorrectas(u, p) => CredencialesCorrectas(u, p)'
    /\ Len(usuarios') = Len(usuarios)
    /\ \A i \in 1..Len(usuarios) :
          usuarios'[i] # usuarios[i] =>
             /\ CambioPedido
             /\ session[resp'.cliente] = {usuarios[i].usuario}
             /\ resp'.args.nueva = resp'.args.confirmar
             /\ CredencialesCorrectas(usuarios[i].usuario, resp'.args.actual)
             /\ usuarios'[i].usuario = usuarios[i].usuario
             /\ usuarios'[i].password.clave = resp'.args.nueva

\* C5: a password change whose new and confirm fields differ, or whose
\* current password is not the session user's, is rejected and leaves every
\* stored hash unchanged (every password that logged in still does); a stored
\* hash changes only in a change request of that user's own session with the
\* right current password and new equal to confirm.
C5_PasswordChange == [][C5_Cambio]_vars

\* C5 witness: with two accounts stored and one hash already replaced, a
\* change request with mismatched new and confirm fields was rejected.
C5_Witness ==
    /\ resp.op = "cambiar_password"
    /\ resp.flash = <<"no_coinciden">>
    /\ Len(usuarios) = 2
    /\ \E i \in 1..Len(usuarios) : usuarios[i].password.clave = Clave
    /\ \E i \in 1..Len(usuarios) : usuarios[i].password.clave = Admin123

----------------------------------------------------------------------------
(* Sales and reorder lists: products of two names and two suppliers, added  *)
(* with a stock of 0 or 2 and a minimum of 1, and sold by 0 to MaxVenta.    *)

MaxVenta == 3

NombreB == <<"B">>

FormsStock ==
    {Form(n, k, <<"1">>, <<"1">>, p, <<"0">>) :
        n \in {<<"a">>, NombreB}, k \in {<<"0">>, <<"2">>},
        p \in {<<"p">>, <<"Q">>}}

NextStock ==
    \/ login("c1", "POST", Admin, Admin123)
    \/ \E f \in FormsStock : agregar("c1", "POST", f)
    \/ \E c \in Clientes, n \in {<<"a">>, NombreB}, k \in 0..MaxVenta :
          vender(c, n, k)
    \/ \E c \in Clientes : pedidos(c)

SpecStock == Init /\ [][NextStock]_vars

----------------------------------------------------------------------------
(* Claims on sales *)

\* the step is a sale by a client who is logged in
Venta == resp'.op = "vender" /\ resp'.destino = "lista_precios"

\* what C1 says of the sale of k units of the product named n
C1_Vendido(n, k) ==
    /\ Len(productos') = Len(productos)
    /\ \A i \in 1..Len(productos) :
          /\ productos[i].nombre = n /\ productos[i].cantidad >= k
                => productos'[i] = [productos[i] EXCEPT !.cantidad = @ - k]
          /\ productos[i].nombre = n /\ productos[i].cantidad = k
                => productos'[i].cantidad = 0
          /\ productos[i].nombre = n /\ productos[i].cantidad < k
                => productos'[i] = productos[i]
          /\ productos[i].nombre # n => productos'[i] = productos[i]
    /\ (\A i \in 1..Len(productos) : productos[i].cantidad >= 0)
          => \A i \in 1..Len(productos') : productos'[i].cantidad >= 0

\* C1: a sale of k units of a product by a logged-in client takes exactly k
\* from the stored quantity of a row of that name when the quantity is at least
\* k (a sale of all of it leaves 0) and leaves the row as it was when the
\* quantity is less than k; it changes no other row, and quantities that were
\* not negative before the sale are not negative after it.
C1_SellNeverNegative ==
    [][Venta => C1_Vendido(resp'.flash[3], resp'.flash[2])]_vars

\* a sale of 2 has emptied one row of the name and left alone another row of
\* the same name that held 1
C1_Witness ==
    /\ resp.op = "vender" /\ resp.destino = "lista_precios"
    /\ resp.flash[2] = 2
    /\ \E i, j \in 1..Len(productos) :
          /\ productos[i].nombre = resp.flash[3] /\ productos[i].cantidad = 0
          /\ productos[j].nombre = resp.flash[3] /\ productos[j].cantidad = 1

----------------------------------------------------------------------------
(* Claims on reorder lists *)

\* the places of the under-stocked products of a list
Bajos(lista) ==
    {i \in 1..Len(lista) : lista[i].stock_minimo - lista[i].cantidad > 0}

BajosDe(lista, prov) == {i \in Bajos(lista) : lista[i].proveedor = prov}

\* the place of the first under-stocked product of a supplier
PrimerBajo(lista, prov) ==
    CHOOSE i \in BajosDe(lista, prov) : \A j \in BajosDe(lista, prov) : i <= j

\* what C9 says of the mapping m returned for the name-ordered list
C9_Mapa(lista, m) ==
    /\ {m[k].prov : k \in 1..Len(m)} = {lista[i].proveedor : i \in Bajos(lista)}
    /\ \A k1, k2 \in 1..Len(m) : k1 # k2 => m[k1].prov # m[k2].prov
    /\ \A k \in 1..Len(m) :
          /\ Len(m[k].lista) = Cardinality(BajosDe(lista, m[k].prov))
          /\ \A i \in BajosDe(lista, m[k].prov) : \E j \in 1..Len(m[k].lista) :
                m[k].lista[j] =
                    [faltante |-> lista[i].stock_minimo - lista[i].cantidad,
                     nombre |-> lista[i].nombre,
                     precio_costo |-> lista[i].precio_costo]
    /\ \A k1, k2 \in 1..Len(m) :
          k1 < k2 => PrimerBajo(lista, m[k1].prov) < PrimerBajo(lista, m[k2].prov)
    /\ Bajos(lista) = {} => m = <<>>

\* C9: the mapping the reorder page shows holds, under its supplier and with
\* shortfall stock_minimo - cantidad, exactly the products whose shortfall is
\* above 0; its keys are the suppliers of those products, each once, in the
\* order of their first under-stocked product in the name-ordered list; it is
\* empty when no product is under-stocked.
C9_ReorderMapping ==
    resp.op = "pedidos" /\ resp.destino = "pedidos.html"
        => \E lista \in obtener_productos(productos) :
              C9_Mapa(lista, resp.datos.pedidos)

\* two suppliers are listed, and the first is the supplier of the product
\* added last
C9_Witness ==
    /\ resp.op = "pedidos" /\ resp.destino = "pedidos.html"
    /\ Len(resp.datos.pedidos) = 2
    /\ Len(productos) = 2
    /\ resp.datos.pedidos[1].prov = productos[2].proveedor

----------------------------------------------------------------------------
(* Concurrent sales.  Each request of Peticiones runs vender on a thread of  *)
(* its own, with its own connection: it opens the connection, executes the   *)
(* UPDATE inside the transaction sqlite3 begins for it, which takes the      *)
(* database's write lock, and commits, which publishes the change and gives *)
(* the lock back.  A connection that finds the lock taken waits, and gets    *)
(* sqlite3.OperationalError when its busy timeout runs out.                  *)

MaxExistencia == 3

NombreA == <<"a">>

FilaConc(id, cantidad) == Fila(id, NombreA, cantidad, 1, Cien, <<"p">>, 0)

TablasConc ==
    {<<FilaConc(1, q)>> : q \in 0..MaxExistencia}
        \cup {<<FilaConc(1, 2), FilaConc(2, 1)>>}

CantidadesConc == {1, 2}

\* c1 has logged in as admin and products of one name have been added
InitConc ==
    /\ productos \in TablasConc
    /\ secuencia = Len(productos)
    /\ usuarios \in UsuariosIniciales
    /\ session = [c \in Clientes |-> IF c = "c1" THEN {Admin} ELSE {}]
    /\ resp = RespInicial
    /\ candado = {}
    /\ conn = [r \in Peticiones |-> SinConexion]
    /\ inicial = productos

\* a variant of the lock that lets every connection write at once
SinCandado(r) == TRUE

\* no other connection holds the write lock
PuedeEscribir(r) == candado \subseteq {r}

\* the request arrives: the gate, then get_connection() and conn.cursor()
VenderAbre(r, c, nombre, cantidad) ==
    /\ conn[r].pc = "libre"
    /\ conn' = [conn EXCEPT ![r] =
                  [pc |-> IF SinSesion(c) THEN "fin" ELSE "abierta",
                   cliente |-> c, nombre |-> nombre, cantidad |-> cantidad,
                   filas |-> {}, tabla |-> <<>>]]
    /\ resp' = IF SinSesion(c) THEN ALogin("vender", c) ELSE resp
    /\ UNCHANGED <<productos, secuencia, usuarios, session, candado, inicial>>

\* cur.execute("UPDATE ..."): the statement takes the write lock, reads the
\* table as committed and changes the rows inside the transaction
VenderEjecuta(r) ==
    /\ conn[r].pc = "abierta"
    /\ PuedeEscribir(r)
    /\ candado' = candado \cup {r}
    /\ conn' = [conn EXCEPT
                  ![r].pc = "ejecutado",
                  ![r].filas = VenderFilas(productos, conn[r].nombre, conn[r].cantidad),
                  ![r].tabla = VenderUpdate(productos, conn[r].nombre, conn[r].cantidad)]
    /\ UNCHANGED <<productos, secuencia, usuarios, session, resp, inicial>>

\* the lock is still taken when the busy timeout runs out: execute raises
\* sqlite3.OperationalError and the request answers 500
VenderOcupado(r) ==
    /\ conn[r].pc = "abierta"
    /\ ~PuedeEscribir(r)
    /\ conn' = [conn EXCEPT ![r].pc = "error"]
    /\ resp' = Resp("vender", conn[r].cliente, <<>>, "500", <<>>, <<>>)
    /\ UNCHANGED <<productos, secuencia, usuarios, session, candado, inicial>>

\* conn.commit(), conn.close(), the flash and the redirect
VenderCommit(r) ==
    /\ conn[r].pc = "ejecutado"
    /\ productos' = conn[r].tabla
    /\ candado' = candado \ {r}
    /\ conn' = [conn EXCEPT ![r].pc = "fin"]
    /\ resp' = Resp("vender", conn[r].cliente, <<>>, "lista_precios",
                    <<"vendido", conn[r].cantidad, conn[r].nombre>>, <<>>)
    /\ UNCHANGED <<secuencia, usuarios, session, inicial>>

NextConc ==
    \/ \E r \in Peticiones, c \in Clientes, k \in CantidadesConc :
          VenderAbre(r, c, NombreA, k)
    \/ \E r \in Peticiones : VenderEjecuta(r)
    \/ \E r \in Peticiones : VenderOcupado(r)
    \/ \E r \in Peticiones : VenderCommit(r)

SpecConc == InitConc /\ [][NextConc]_vars

----------------------------------------------------------------------------
(* Claims on concurrent sales *)

OrdenPeticiones == <<"r1", "r2", "r3">>

\* the sale of request r has been committed and its UPDATE changed row id
Efectiva(r, id) == conn[r].pc = "fin" /\ id \in conn[r].filas

\* the units taken from row id by the sales that took effect
Vendidas(id) ==
    Suma([j \in 1..Len(OrdenPeticiones) |->
            IF Efectiva(OrdenPeticiones[j], id)
            THEN conn[OrdenPeticiones[j]].cantidad ELSE 0])

\* C2: however the steps of concurrent sales of one product interleave, every
\* row holds what it held at the start less the amounts of the sales that took
\* effect on it (no decrement is lost), two sales whose amounts sum to more
\* than the row held never both take effect, and no quantity goes below 0.
C2_AtomicSells ==
    /\ Len(productos) = Len(inicial)
    /\ \A i \in 1..Len(inicial) :
          /\ productos[i] =
                [inicial[i] EXCEPT !.cantidad = @ - Vendidas(inicial[i].id)]
          /\ productos[i].cantidad >= 0
          /\ \A r1, r2 \in Peticiones :
                r1 # r2 /\ Efectiva(r1, inicial[i].id) /\ Efectiva(r2, inicial[i].id)
                    => conn[r1].cantidad + conn[r2].cantidad <= inicial[i].cantidad

\* three sales have ended: two took effect and emptied the row, the third,
\* by a logged-in client, found too little and changed nothing
C2_Witness ==
    /\ Len(productos) = 1 /\ productos[1].cantidad = 0
    /\ \E r1, r2, r3 \in Peticiones :
          /\ r1 # r2 /\ r1 # r3 /\ r2 # r3
          /\ Efectiva(r1, 1) /\ Efectiva(r2, 1)
          /\ conn[r3].pc = "fin" /\ conn[r3].filas = {}
          /\ ~SinSesion(conn[r3].cliente)

----------------------------------------------------------------------------
(* The inventory page: products of two names, two suppliers and two          *)
(* markups, and queries that match some, all or none of them.                *)

FormsTotales ==
    {Form(n, <<"2">>, <<"1">>, <<"1", ",", "5">>, p, g) :
        n \in {<<"A", "b">>, <<"b">>}, p \in {<<"p">>, <<"a">>},
        g \in {<<"0">>, <<"5", "0">>}}

ConsultasTotales == {<<>>, <<"A">>, <<"b">>, <<"a", "B">>, <<"z">>}

NextTotales ==
    \/ login("c1", "POST", Admin, Admin123)
    \/ \E f \in FormsTotales : agregar("c1", "POST", f)
    \/ \E c \in Clientes, q \in ConsultasTotales : inventario(c, q)

SpecTotales == Init /\ [][NextTotales]_vars

----------------------------------------------------------------------------
(* Claims on the inventory page *)

\* q occurs in s, letter case aside
Coincide(q, s) ==
    \E d \in 0..(Len(s) - Len(q)) :
        \A k \in 1..Len(q) : LowerChar(q[k]) = LowerChar(s[d + k])

\* the rows of the table that pass the filter of query q
Pasan(q) ==
    {i \in 1..Len(productos) :
        Coincide(q, productos[i].nombre) \/ Coincide(q, productos[i].proveedor)}

RECURSIVE SumaSobre(_, _)
SumaSobre(S, v) ==
    IF S = {} THEN 0
    ELSE LET i == CHOOSE j \in S : TRUE IN v[i] + SumaSobre(S \ {i}, v)

\* cantidad * precio_costo of every row, in millionths
Costos ==
    [i \in 1..Len(productos) |->
        productos[i].cantidad * productos[i].precio_costo * Cien * Cien]

\* cantidad * precio_costo * (1 + ganancia / 100) of every row, in millionths
Ventas ==
    [i \in 1..Len(productos) |->
        productos[i].cantidad * productos[i].precio_costo
            * (Cien * Cien + productos[i].ganancia)]

\* C10: the inventory page lists exactly the products whose name or supplier
\* holds the query, letter case aside, and its totals are sums over those
\* products alone: total_costo of cantidad * precio_costo, total_venta of
\* cantidad * precio_venta, ganancia their difference; all three are 0 when
\* no product is listed.
C10_FilterThenTotals ==
    resp.op = "inventario" /\ resp.destino = "index.html"
        => LET pasan == Pasan(resp.args.q)
               d == resp.datos
           IN  /\ Len(d.productos) = Cardinality(pasan)
               /\ \A k \in 1..Len(d.productos) :
                     \E i \in pasan : d.productos[k].id = productos[i].id
               /\ d.total_costo = SumaSobre(pasan, Costos)
               /\ d.total_venta = SumaSobre(pasan, Ventas)
               /\ d.ganancia = d.total_venta - d.total_costo
               /\ d.productos = <<>> =>
                     d.total_costo = 0 /\ d.total_venta = 0 /\ d.ganancia = 0

\* a query in capitals has kept one product with a markup and dropped another
C10_Witness ==
    /\ resp.op = "inventario" /\ resp.destino = "index.html"
    /\ resp.args.q # resp.datos.query
    /\ Len(resp.datos.productos) = 1 /\ Len(productos) = 2
    /\ resp.datos.ganancia > 0

----------------------------------------------------------------------------
(* Imports and exports: products added by hand, one of them with a name     *)
(* that ends in a blank; uploads with missing columns, empty cells, texts   *)
(* for numbers and rows that fail; and the upload of the workbook that the  *)
(* general export has just sent.                                            *)

NombreN == <<"n">>

FormsImport ==
    {Form(NombreA, <<"1">>, <<"2">>, <<"1", ",", "5">>, <<"p">>, <<"5", "0">>),
     Form(<<"a", " ">>, <<"1">>, <<"2">>, <<"1", ",", "5">>, <<"p">>, <<"5", "0">>),
     Form(NombreB, <<"4">>, <<"0">>, <<"3">>, <<" ", "q">>, <<"0">>)}

\* a row that gives a cost and a quantity for "a", and one that gives only a
\* quantity for "n"
FilasParciales ==
    <<FilaArchivo(Txt(NombreA), Num(2 * Cien), Vacia, Txt(<<"3">>), Vacia, Txt(<<>>)),
      FilaArchivo(Txt(NombreN), Vacia, Vacia, Num(7 * Cien), Vacia, Vacia)>>

\* a row whose quantity is no number, between two rows that are in order
FilasConFalla ==
    <<FilaArchivo(Txt(NombreA), Vacia, Vacia, Num(5 * Cien), Vacia, Vacia),
      FilaArchivo(Txt(NombreA), Vacia, Vacia, Txt(<<"x">>), Num(9 * Cien), Vacia),
      FilaArchivo(Txt(NombreB), Vacia, Vacia, Num(7 * Cien), Vacia, Vacia)>>

\* a name and a supplier with blanks around them, a cost with a decimal comma,
\* a quantity with a fraction, and a row whose markup is no number
FilasTextos ==
    <<FilaArchivo(Txt(<<" ", "B", " ">>), Txt(<<"2", ",", "5">>), Num(10 * Cien),
                  Num(Cien + 50), Num(Cien), Txt(<<" ", "q", " ">>)),
      FilaArchivo(Txt(NombreB), Vacia, Txt(<<"x">>), Vacia, Vacia, Vacia)>>

ArchivosImport ==
    {Archivo(columnas_validas, FilasParciales),
     Archivo({ColNombre, ColCantidad, ColStock}, FilasConFalla),
     Archivo({ColNombre, ColCantidad}, FilasConFalla),
     Archivo(columnas_validas, FilasTextos)}

\* the workbook the client has just downloaded from /exportar
Descargados ==
    IF resp.op = "exportar" /\ resp.destino = "productos_export.xlsx"
    THEN {resp.datos} ELSE {}

NextImport ==
    \/ login("c1", "POST", Admin, Admin123)
    \/ \E f \in FormsImport : agregar("c1", "POST", f)
    \/ \E c \in Clientes : exportar_excel(c)
    \/ \E c \in Clientes, a \in ArchivosImport \cup Descargados :
          importar_excel(c, "POST", a)

SpecImport == Init /\ [][NextImport]_vars

----------------------------------------------------------------------------
(* Claims on imports *)

\* the step is an import that went through the rows of its upload
Importa == resp'.op = "importar" /\ resp'.destino = "index"

\* the column is in the upload and the row's cell is not blank
Provisto(cols, fila, col) ==
    /\ col \in cols
    /\ fila[col].t # "blank"
    /\ ~(fila[col].t = "txt" /\ fila[col].s \in ValoresNA)

NombreDe(fila) == Strip(StrCelda(LeerCelda(fila[ColNombre])))

\* a number the row provides cannot be read
NoSeLee(cols, fila) ==
    \/ \E col \in {ColCantidad, ColStock} :
          Provisto(cols, fila, col) /\ ~IntCelda(fila[col]).ok
    \/ \E col \in {ColCosto, ColGanancia} :
          Provisto(cols, fila, col) /\ ~FloatCelda(fila[col]).ok

\* the fields of a product after a row: what the row provides, and for the
\* rest what the product p had
C6_Campos(p, cols, fila) ==
    [id |-> p.id,
     nombre |-> p.nombre,
     cantidad |-> IF Provisto(cols, fila, ColCantidad)
                  THEN IntCelda(fila[ColCantidad]).v ELSE p.cantidad,
     stock_minimo |-> IF Provisto(cols, fila, ColStock)
                      THEN IntCelda(fila[ColStock]).v ELSE p.stock_minimo,
     precio_costo |-> IF Provisto(cols, fila, ColCosto)
                      THEN FloatCelda(fila[ColCosto]).v ELSE p.precio_costo,
     proveedor |-> IF Provisto(cols, fila, ColProveedor)
                   THEN Strip(StrCelda(fila[ColProveedor])) ELSE p.proveedor,
     ganancia |-> IF Provisto(cols, fila, ColGanancia)
                  THEN FloatCelda(fila[ColGanancia]).v ELSE p.ganancia]

\* a product of that name with 0 in every number and no supplier
C6_Nuevo(id, nombre) ==
    [id |-> id, nombre |-> nombre, cantidad |-> 0, stock_minimo |-> 0,
     precio_costo |-> 0, proveedor |-> <<>>, ganancia |-> 0]

\* what C6 says a row that is processed leaves, from the table t and the
\* largest id given so far; a row that fails leaves both as they are
C6_TrasFila(acc, cols, fila) ==
    IF NoSeLee(cols, fila) THEN acc
    ELSE IF \E i \in 1..Len(acc.t) : acc.t[i].nombre = NombreDe(fila)
    THEN [t |-> [i \in 1..Len(acc.t) |->
                    IF acc.t[i].nombre = NombreDe(fila)
                    THEN C6_Campos(acc.t[i], cols, fila) ELSE acc.t[i]],
          sec |-> acc.sec]
    ELSE [t |-> Append(acc.t,
                    C6_Campos(C6_Nuevo(acc.sec + 1, NombreDe(fila)), cols, fila)),
          sec |-> acc.sec + 1]

RECURSIVE C6_TrasFilas(_, _, _)
C6_TrasFilas(acc, cols, filas) ==
    IF filas = <<>> THEN acc
    ELSE C6_TrasFilas(C6_TrasFila(acc, cols, Head(filas)), cols, Tail(filas))

\* C6: an import leaves the table that its processed rows, taken in order,
\* make of it: a row whose name some product has overwrites, in every product
\* of that name, exactly the fields it provides (column in the upload, cell
\* not blank) and leaves the other fields and the other products as stored; a
\* row whose name no product has adds one product, with 0 for each number and
\* the empty text for the supplier it does not provide.
C6_ImportUpsert ==
    [][Importa =>
        productos' = C6_TrasFilas([t |-> productos, sec |-> secuencia],
                         resp'.args.archivo.columnas, resp'.args.archivo.filas).t]_vars

\* both rows of the partial upload went through: "a" has the cost and the
\* quantity of its row and the markup, minimum and supplier it had, "n" is new
\* with its quantity and defaults
C6_Witness ==
    /\ resp.op = "importar" /\ resp.destino = "index"
    /\ resp.args.archivo.filas = FilasParciales
    /\ \E i, j \in 1..Len(productos) :
          /\ productos[i].nombre = NombreA /\ productos[i].precio_costo = 2 * Cien
          /\ productos[i].cantidad = 3 /\ productos[i].ganancia = 50 * Cien
          /\ productos[i].stock_minimo = 2 /\ productos[i].proveedor = <<"p">>
          /\ productos[j] = [C6_Nuevo(productos[j].id, NombreN) EXCEPT !.cantidad = 7]

\* the rows of an upload that can be read
Legibles(archivo) ==
    LET Buena(fila) == ~NoSeLee(archivo.columnas, fila)
    IN  SelectSeq(archivo.filas, Buena)

\* C8: an import leaves the table that the upload without its failing rows
\* would leave (a row that fails writes nothing, the rows before and after it
\* are processed in order), reports as succeeded the rows that can be read
\* and as failed the others, and the two counts add up to the rows of the
\* upload.
C8_ImportRowFailure ==
    [][Importa =>
        LET archivo == resp'.args.archivo
            buenas == [archivo EXCEPT !.filas = Legibles(archivo)]
        IN  /\ productos' = Importado(productos, secuencia, buenas).tabla
            /\ resp'.flash[2] = Len(buenas.filas)
            /\ resp'.flash[3] = Len(archivo.filas) - Len(buenas.filas)
            /\ resp'.flash[2] + resp'.flash[3] = Len(archivo.filas)]_vars

\* the second of three rows failed: "a" has the quantity of the first row and
\* not the minimum of the second, "B" has the quantity of the third
C8_Witness ==
    /\ resp.op = "importar" /\ resp.destino = "index"
    /\ resp.args.archivo.filas = FilasConFalla
    /\ ColStock \in resp.args.archivo.columnas
    /\ resp.flash = <<"importacion", 2, 1>>
    /\ \E i, j \in 1..Len(productos) :
          /\ productos[i].nombre = NombreA /\ productos[i].cantidad = 5
          /\ productos[i].stock_minimo = 2
          /\ productos[j].nombre = NombreB /\ productos[j].cantidad = 7

\* C7: uploading the workbook of the general export leaves every product as
\* it was and adds none.
C7_RoundTrip ==
    [][/\ resp.op = "exportar" /\ resp.destino = "productos_export.xlsx"
       /\ Importa /\ resp'.args.archivo = resp.datos
       => productos' = productos]_vars

----------------------------------------------------------------------------
(* The price normalizer alone: it is given every text of MaxLen characters  *)
(* at most over digits, both separators and a letter, and then the text     *)
(* Python writes for the float it returned.                                 *)

MaxLen == 6

Alfabeto == {"0", "1", ".", ",", "x"}

Textos == UNION {[1..n -> Alfabeto] : n \in 0..MaxLen}

RECURSIVE SinCerosFinales(_)
SinCerosFinales(d) ==
    IF Len(d) > 1 /\ d[Len(d)] = "0" THEN SinCerosFinales(SubSeq(d, 1, Len(d) - 1))
    ELSE d

Ceros(k) == [i \in 1..k |-> "0"]

\* the exponent of repr: a sign and two digits at least
StrExponente(k) ==
    (IF k < 0 THEN <<"e", "-">> ELSE <<"e", "+">>)
        \o (IF k > 0 - 10 /\ k < 10 THEN <<"0">> ELSE <<>>)
        \o DigitosDe(IF k < 0 THEN 0 - k ELSE k)

\* repr of a float with digits d whose first digit counts 10^k: "1e-05",
\* "1.5e-05", "1e+16"
StrCientifico(d, k) ==
    <<d[1]>> \o (IF Len(d) > 1 THEN <<".">> \o SubSeq(d, 2, Len(d)) ELSE <<>>)
        \o StrExponente(k)

\* repr of a float with digits d, the last e of them after the point: "5.0",
\* "12.5", "0.0001"
StrFijo(d, e) ==
    IF e = 0 THEN d \o <<".", "0">>
    ELSE IF Len(d) > e
    THEN SubSeq(d, 1, Len(d) - e) \o <<".">> \o SubSeq(d, Len(d) - e + 1, Len(d))
    ELSE <<"0", ".">> \o Ceros(e - Len(d)) \o d

\* the power of ten of the first digit of x, for x above 0
Magnitud(x) == Len(DigitosDe(x.m)) - 1 - x.e

\* str(valor) of line 30 when valor is a float: Python writes a float below
\* 0.0001 or from 1e16 on with an exponent
StrFloat(x) ==
    IF x.m = 0 THEN <<"0", ".", "0">>
    ELSE IF Magnitud(x) < 0 - 4 \/ Magnitud(x) >= 16
    THEN StrCientifico(SinCerosFinales(DigitosDe(x.m)), Magnitud(x))
    ELSE StrFijo(DigitosDe(x.m), x.e)

\* a text is about to be normalized
InitPrecio ==
    /\ productos = <<>>
    /\ secuencia = 0
    /\ usuarios \in UsuariosIniciales
    /\ session = [c \in Clientes |-> {}]
    /\ \E valor \in Textos :
          resp = Resp("ninguna", "c1", [valor |-> valor, de |-> "entrada"], "",
                      <<>>, <<>>)
    /\ candado = {}
    /\ conn = [r \in Peticiones |-> SinConexion]
    /\ inicial = <<>>

\* normalizar_precio(valor) on the text given
Normaliza ==
    /\ resp.op = "ninguna"
    /\ resp' = Resp("normalizar_precio", "c1", resp.args, "", <<>>,
                    normalizar_precio(resp.args.valor))
    /\ SoloResp

\* normalizar_precio(valor) on the float the call before returned
Renormaliza ==
    /\ resp.op = "normalizar_precio"
    /\ resp.args.de = "entrada"
    /\ resp' = Resp("normalizar_precio", "c1",
                    [valor |-> StrFloat(resp.datos), de |-> "salida"], "", <<>>,
                    normalizar_precio(StrFloat(resp.datos)))
    /\ SoloResp

NextPrecio == Normaliza \/ Renormaliza

SpecPrecio == InitPrecio /\ [][NextPrecio]_vars

----------------------------------------------------------------------------
(* Claims on the price normalizer *)

\* digits with at most one period, no comma, and one digit at least
EnFormaNormal(valor) ==
    /\ \A i \in 1..Len(valor) : EsDigito(valor[i]) \/ valor[i] = "."
    /\ Cuenta(valor, ".") <= 1
    /\ \E i \in 1..Len(valor) : EsDigito(valor[i])

\* the number a text in normal form writes
Escrito(valor) ==
    Decimal(ValorDigitos(SinChar(valor, ".")),
            IF Cuenta(valor, ".") = 1
            THEN Len(valor) - (CHOOSE i \in 1..Len(valor) : valor[i] = ".")
            ELSE 0)

\* C11: normalizing the text of the value that normalizar_precio returned
\* gives that value again, and a text in normal form (digits with at most one
\* period, no comma) is given the value it writes.
C11_Idempotent ==
    [][/\ resp'.op = "normalizar_precio" /\ resp'.args.de = "salida"
            => resp'.datos = resp.datos
       /\ resp'.op = "normalizar_precio" /\ resp'.args.de = "entrada"
            /\ EnFormaNormal(resp'.args.valor)
            => resp'.datos = Escrito(resp'.args.valor)]_vars

============================================================================
